---- MODULE Spec2Model ----
(***************************************************************************)
(* A model of googletrans/client.py: Translator.translate and its helpers. *)
(* Text is modelled as TLA+ strings, read character by character, so that  *)
(* language normalisation, the line scanner of the response extractor and  *)
(* the two JSON decodings are computed the way the code computes them.     *)
(***************************************************************************)
EXTENDS Integers, Sequences, FiniteSets, TLC

(***************************************************************************)
(* Strings                                                                 *)
(***************************************************************************)

\* A slice s[a..b] (1-based, both ends included), clipped to the string as a
\* Python slice is: empty when it lies outside.
Sub(s, a, b) ==
    LET hi == IF b < Len(s) THEN b ELSE Len(s)
    IN IF a < 1 \/ a > hi THEN "" ELSE SubSeq(s, a, hi)

\* The one-character string at position i ("" beyond the end).
Ch(s, i) == Sub(s, i, i)

\* s[:n] of Python.
Prefix(s, n) == Sub(s, 1, n)

\* s[i:] of Python for a 1-based i.
From(s, i) == Sub(s, i, Len(s))

\* s.startswith(p)
StartsWith(s, p) == Sub(s, 1, Len(p)) = p

\* The characters of s, one by one.
Chars(s) == [i \in 1..Len(s) |-> SubSeq(s, i, i)]

\* The character at position i of the characters cs ("" beyond the ends).
At(cs, i) == IF i >= 1 /\ i <= Len(cs) THEN cs[i] ELSE ""

\* Whether the characters word stand in cs from position i on.
Matches(cs, i, word) ==
    i >= 1 /\ i + Len(word) - 1 <= Len(cs) /\ \A k \in 1..Len(word) : cs[i + k - 1] = word[k]

\* needle in s
Contains(s, needle) ==
    LET cs == Chars(s)
        word == Chars(needle)
    IN \E i \in 1..(Len(s) - Len(needle) + 1) : Matches(cs, i, word)

\* Position of the first ch in s, 0 when there is none.
FirstIndex(s, ch) ==
    LET cs == Chars(s)
        hits == {i \in 1..Len(s) : cs[i] = ch}
    IN IF hits = {} THEN 0 ELSE CHOOSE i \in hits : \A j \in hits : i <= j

UpperLetters == "ABCDEFGHIJKLMNOPQRSTUVWXYZ"
LowerLetters == "abcdefghijklmnopqrstuvwxyz"

LowerChar(c) ==
    IF \E i \in 1..Len(UpperLetters) : Ch(UpperLetters, i) = c
    THEN Ch(LowerLetters, CHOOSE i \in 1..Len(UpperLetters) : Ch(UpperLetters, i) = c)
    ELSE c

\* str.lower(): every character lowered, in order (computed half by half, which
\* keeps the evaluation shallow on long text).
RECURSIVE Lower(_)
Lower(s) ==
    IF Len(s) <= 1 THEN LowerChar(s)
    ELSE Lower(Sub(s, 1, Len(s) \div 2)) \o Lower(From(s, Len(s) \div 2 + 1))

\* str.split(sep, 1)[0]: the text before the first sep, all of it when there is none.
SplitFirst(s, sep) ==
    LET i == FirstIndex(s, sep) IN IF i = 0 THEN s ELSE Sub(s, 1, i - 1)

\* str.split("\n"): the lines of a body; the empty body has one empty line.
RECURSIVE SplitLines(_)
SplitLines(s) ==
    LET i == FirstIndex(s, "\n")
    IN IF i = 0 THEN <<s>> ELSE <<Sub(s, 1, i - 1)>> \o SplitLines(From(s, i + 1))

\* "\n".join(lines): how the transport's body is laid out from its lines.
RECURSIVE JoinLines(_)
JoinLines(ls) ==
    IF ls = <<>> THEN ""
    ELSE IF Len(ls) = 1 THEN ls[1]
    ELSE ls[1] \o "\n" \o JoinLines(Tail(ls))

\* "".join(lines[a..b])
RECURSIVE Concat(_, _, _)
Concat(ls, a, b) == IF a > b THEN "" ELSE ls[a] \o Concat(ls, a + 1, b)

(***************************************************************************)
(* JSON values, json.loads and json.dumps                                  *)
(***************************************************************************)

Null == [t |-> "null"]
Bool(b) == [t |-> "bool", b |-> b]
Num(n) == [t |-> "num", n |-> n]
Str(s) == [t |-> "str", s |-> s]
Arr(items) == [t |-> "arr", a |-> items]

IsStr(v) == v.t = "str"
IsArr(v) == v.t = "arr"

Digits == <<"0", "1", "2", "3", "4", "5", "6", "7", "8", "9">>
IsDigit(c) == \E i \in 1..10 : Digits[i] = c
DigitVal(c) == (CHOOSE i \in 1..10 : Digits[i] = c) - 1
IsSpace(c) == c \in {" ", "\t", "\n", "\r"}

ParseFail == [ok |-> FALSE]
ParseOk(v, next) == [ok |-> TRUE, val |-> v, pos |-> next]

\* The parser reads cs, the characters of the text; positions are 1-based.
RECURSIVE SkipSpace(_, _)
SkipSpace(cs, i) == IF IsSpace(At(cs, i)) THEN SkipSpace(cs, i + 1) ELSE i

\* The characters a backslash may introduce in a JSON string, and what each stands
\* for (the \uXXXX form is outside the modelled alphabet and is rejected).
Unescape(c) ==
    CASE c = "\"" -> "\""
      [] c = "\\" -> "\\"
      [] c = "/" -> "/"
      [] c = "n" -> "\n"
      [] c = "t" -> "\t"
      [] c = "r" -> "\r"
      [] OTHER -> ""

\* The least of the positions S in k..n, 0 when there is none.
NextIn(S, k, n) ==
    IF \E j \in k..n : j \in S
    THEN CHOOSE j \in k..n : j \in S /\ \A i \in k..(j - 1) : i \notin S
    ELSE 0

\* The positions of cs that a string literal cannot simply copy: quotes,
\* backslashes and raw control characters.
Specials(cs) == {j \in 1..Len(cs) : cs[j] \in {"\"", "\\", "\n", "\t", "\r"}}

\* A string literal of the text s whose content is read from position a on, sp
\* being Specials(cs) and acc the content decoded before a. A literal that never
\* closes, an unknown escape or a raw control character is an error.
RECURSIVE ParseString(_, _, _, _, _)
StringAt(s, cs, sp, a, acc, k) ==
    IF k = 0 THEN ParseFail
    ELSE IF cs[k] = "\"" THEN ParseOk(Str(acc \o Sub(s, a, k - 1)), k + 1)
    ELSE IF cs[k] = "\\" /\ Unescape(At(cs, k + 1)) # ""
    THEN ParseString(s, cs, sp, k + 2, acc \o Sub(s, a, k - 1) \o Unescape(cs[k + 1]))
    ELSE ParseFail

ParseString(s, cs, sp, a, acc) == StringAt(s, cs, sp, a, acc, NextIn(sp, a, Len(cs)))

RECURSIVE ParseDigits(_, _, _)
ParseDigits(cs, i, acc) ==
    IF IsDigit(At(cs, i))
    THEN ParseDigits(cs, i + 1, 10 * acc + DigitVal(cs[i]))
    ELSE ParseOk(Num(acc), i)

RECURSIVE ParseValue(_, _, _, _)
RECURSIVE ParseItems(_, _, _, _, _)
ParseValue(s, cs, sp, i0) ==
    LET i == SkipSpace(cs, i0)
        c == At(cs, i)
    IN  IF c = "[" THEN
            IF At(cs, SkipSpace(cs, i + 1)) = "]"
            THEN ParseOk(Arr(<<>>), SkipSpace(cs, i + 1) + 1)
            ELSE ParseItems(s, cs, sp, i + 1, <<>>)
        ELSE IF c = "\"" THEN ParseString(s, cs, sp, i + 1, "")
        ELSE IF Matches(cs, i, <<"n", "u", "l", "l">>) THEN ParseOk(Null, i + 4)
        ELSE IF Matches(cs, i, <<"t", "r", "u", "e">>) THEN ParseOk(Bool(TRUE), i + 4)
        ELSE IF Matches(cs, i, <<"f", "a", "l", "s", "e">>) THEN ParseOk(Bool(FALSE), i + 5)
        ELSE IF c = "0" THEN ParseOk(Num(0), i + 1)
        ELSE IF IsDigit(c) THEN ParseDigits(cs, i, 0)
        ELSE ParseFail

\* What follows an element r of an array: a comma and more elements, or the end.
ParseRest(s, cs, sp, r, acc) ==
    IF ~r.ok THEN ParseFail
    ELSE IF At(cs, SkipSpace(cs, r.pos)) = ","
    THEN ParseItems(s, cs, sp, SkipSpace(cs, r.pos) + 1, Append(acc, r.val))
    ELSE IF At(cs, SkipSpace(cs, r.pos)) = "]"
    THEN ParseOk(Arr(Append(acc, r.val)), SkipSpace(cs, r.pos) + 1)
    ELSE ParseFail

\* The elements of an array from position i, the items read so far in acc.
ParseItems(s, cs, sp, i, acc) == ParseRest(s, cs, sp, ParseValue(s, cs, sp, i), acc)

\* One value read from the start, then nothing but white space.
LoadsEnd(cs, r) == IF r.ok /\ SkipSpace(cs, r.pos) = Len(cs) + 1 THEN r ELSE ParseFail

LoadsChars(s, cs) == LoadsEnd(cs, ParseValue(s, cs, Specials(cs), 1))

\* json.loads(s): one value, then nothing but white space ("Extra data" otherwise).
Loads(s) == LoadsChars(s, Chars(s))

EscapeChar(c) ==
    CASE c = "\"" -> "\\\""
      [] c = "\\" -> "\\\\"
      [] c = "\n" -> "\\n"
      [] c = "\t" -> "\\t"
      [] c = "\r" -> "\\r"
      [] OTHER -> c

\* The encoding of s from position a on, sp being the positions of the characters
\* that need an escape.
RECURSIVE EscapeFrom(_, _, _, _)
EscapeAt(s, cs, sp, a, k) ==
    IF k = 0 THEN Sub(s, a, Len(cs))
    ELSE Sub(s, a, k - 1) \o EscapeChar(cs[k]) \o EscapeFrom(s, cs, sp, k + 1)

EscapeFrom(s, cs, sp, a) == EscapeAt(s, cs, sp, a, NextIn(sp, a, Len(cs)))

EscapeChars(s, cs) == EscapeFrom(s, cs, {j \in 1..Len(cs) : EscapeChar(cs[j]) # cs[j]}, 1)

Escape(s) == EscapeChars(s, Chars(s))

\* json.dumps(v, separators=(",", ":"))
RECURSIVE Dumps(_)
RECURSIVE DumpItems(_)
Dumps(v) ==
    CASE v.t = "null" -> "null"
      [] v.t = "bool" -> IF v.b THEN "true" ELSE "false"
      [] v.t = "num" -> ToString(v.n)
      [] v.t = "str" -> "\"" \o Escape(v.s) \o "\""
      [] v.t = "arr" -> "[" \o DumpItems(v.a) \o "]"

DumpItems(items) ==
    IF items = <<>> THEN ""
    ELSE IF Len(items) = 1 THEN Dumps(items[1])
    ELSE Dumps(items[1]) \o "," \o DumpItems(Tail(items))

(***************************************************************************)
(* Python's untyped reads of a decoded value                               *)
(***************************************************************************)

IdxFail == [ok |-> FALSE]
IdxOk(v) == [ok |-> TRUE, val |-> v]

\* v[i] for a 0-based i >= 0: an element of a list, a character of a string;
\* IndexError beyond the end, TypeError on null, a boolean or a number.
PyIndex(v, i) ==
    IF v.t = "arr" THEN (IF i < Len(v.a) THEN IdxOk(v.a[i + 1]) ELSE IdxFail)
    ELSE IF v.t = "str" THEN (IF i < Len(v.s) THEN IdxOk(Str(Ch(v.s, i + 1))) ELSE IdxFail)
    ELSE IdxFail

\* v[path[1]][path[2]]...
RECURSIVE PyPath(_, _)
PyPath(v, path) ==
    IF path = <<>> THEN IdxOk(v)
    ELSE LET r == PyIndex(v, Head(path))
         IN IF r.ok THEN PyPath(r.val, Tail(path)) ELSE IdxFail

\* bool(v)
Truthy(v) ==
    CASE v.t = "null" -> FALSE
      [] v.t = "bool" -> v.b
      [] v.t = "num" -> v.n # 0
      [] v.t = "str" -> v.s # ""
      [] v.t = "arr" -> v.a # <<>>

\* What iterating over v yields: the elements of a list, the characters of a string.
Iterable(v) == v.t \in {"arr", "str"}
Elements(v) == IF v.t = "arr" THEN v.a ELSE [i \in 1..Len(v.s) |-> Str(Ch(v.s, i))]

(***************************************************************************)
(* Constants of the module and the language tables                         *)
(***************************************************************************)

RPC_ID == "MkEWBc"

\* f'"{RPC_ID}"'
QuotedRpcId == "\"" \o RPC_ID \o "\""

\* The 30 of line[:30].
PrefixLen == 30

\* googletrans.constants.LANGUAGES (its keys): the canonical codes.
LANGUAGES == {"en", "fr", "ko", "es", "et", "ga", "zh-cn"}

\* googletrans.constants.SPECIAL_CASES
SPECIAL_CASES == [c \in {"ee"} |-> "et"]

\* googletrans.constants.LANGCODES: language name to canonical code.
LANGCODES ==
    [n \in {"english", "french", "korean", "irish"} |->
        CASE n = "english" -> "en"
          [] n = "french" -> "fr"
          [] n = "korean" -> "ko"
          [] n = "irish" -> "ga"]

DEFAULT_CLIENT_SERVICE_URLS == <<"translate.google.com">>
DEFAULT_FALLBACK_SERVICE_URLS == <<"translate.googleapis.com">>
DEFAULT_USER_AGENT == "Mozilla/5.0"

(***************************************************************************)
(* Translator.__init__                                                     *)
(***************************************************************************)

NewTranslator(service_urls, user_agent, raise_exception, use_fallback) ==
    [ headers |-> [UserAgent |-> user_agent, Referer |-> "https://translate.google.com"],
      service_urls |-> IF use_fallback THEN DEFAULT_FALLBACK_SERVICE_URLS ELSE service_urls,
      client_type |-> IF use_fallback THEN "gtx" ELSE "tw-ob",
      token_host |-> IF use_fallback THEN "" ELSE service_urls[1],
      raise_exception |-> raise_exception ]

(***************************************************************************)
(* Translator.translate, lines 170-187: language codes                     *)
(***************************************************************************)

\* A normalisation that drops the underscore and keeps what follows it.
NormalizeLangDroppingUnderscore(lang) ==
    IF FirstIndex(Lower(lang), "_") = 0 THEN Lower(lang)
    ELSE Prefix(Lower(lang), FirstIndex(Lower(lang), "_") - 1)
             \o From(Lower(lang), FirstIndex(Lower(lang), "_") + 1)

\* lang.lower().split("_", 1)[0]
NormalizeLang(lang) == SplitFirst(Lower(lang), "_")

Resolved(code) == [ok |-> TRUE, code |-> code]
Unresolved == [ok |-> FALSE]

\* A look-up whose last branch keeps the code instead of raising.
LookupLangKeeping(code) ==
    IF code \in DOMAIN SPECIAL_CASES THEN Resolved(SPECIAL_CASES[code])
    ELSE IF code \in DOMAIN LANGCODES THEN Resolved(LANGCODES[code])
    ELSE Resolved(code)

\* The look-up both languages go through once the code is not canonical.
LookupLang(code) ==
    IF code \in DOMAIN SPECIAL_CASES THEN Resolved(SPECIAL_CASES[code])
    ELSE IF code \in DOMAIN LANGCODES THEN Resolved(LANGCODES[code])
    ELSE Unresolved

\* Lines 173-179, on the normalised source.
ResolveSrc(src) ==
    IF src # "auto" /\ src \notin LANGUAGES THEN LookupLang(src) ELSE Resolved(src)

\* Lines 181-187, on the normalised destination.
ResolveDest(dest) ==
    IF dest \notin LANGUAGES THEN LookupLang(dest) ELSE Resolved(dest)

(***************************************************************************)
(* Translator._build_rpc_request, _pick_service_url, _translate            *)
(***************************************************************************)

BuildRpcRequest(text, dest, src) ==
    Dumps(Arr(<<Arr(<<Arr(<<
        Str(RPC_ID),
        Str(Dumps(Arr(<<Arr(<<Str(text), Str(src), Str(dest), Bool(TRUE)>>), Arr(<<Null>>)>>))),
        Null,
        Str("generic")>>)>>)>>))

Range(f) == {f[i] : i \in DOMAIN f}

\* A pick that takes the hosts in turn by rotating the session's list.
PickServiceUrlRotating(service_urls) ==
    IF Len(service_urls) = 1
    THEN {[host |-> service_urls[1], service_urls |-> service_urls]}
    ELSE {[host |-> service_urls[1],
           service_urls |-> Append(Tail(service_urls), service_urls[1])]}

\* The hosts a call may post to, each with the host list the session holds
\* afterwards: the pick reads the list and leaves it as it is.
PickServiceUrl(service_urls) ==
    IF Len(service_urls) = 1
    THEN {[host |-> service_urls[1], service_urls |-> service_urls]}
    ELSE {[host |-> h, service_urls |-> service_urls] : h \in Range(service_urls)}

\* A status check that forgets the session's mode.
RaisesConnectionErrorAlways(status_code, raise_exception) == status_code # 200

\* Line 135: whether the status raises ConnectionError.
RaisesConnectionError(status_code, raise_exception) ==
    status_code # 200 /\ raise_exception

(***************************************************************************)
(* Translator.translate, lines 192-212: the extractor's line loop          *)
(***************************************************************************)

\* A token test that searches the whole line.
TokenInLine(line) == Contains(line, QuotedRpcId)

\* f'"{RPC_ID}"' in line[:30]
TokenInPrefix(line) == Contains(Prefix(line, PrefixLen), QuotedRpcId)

\* line[max(0, index - 1)] for the 1-based position i of the characters cs.
PrevChar(cs, i) == cs[IF i - 1 < 1 THEN 1 ELSE i - 1]

\* Line 202: whether the character at i toggles is_in_string.
TogglesString(cs, i) == cs[i] = "\"" /\ PrevChar(cs, i) # "\\"

\* Lines 200-208: the characters of the line counted as opening (ch = "[") or as
\* closing (ch = "]"): those met while is_in_string is False, which starts False
\* on every line and flips at every toggling character up to the one looked at.
Counted(cs, ch) ==
    LET toggles == {j \in 1..Len(cs) : TogglesString(cs, j)}
    IN Cardinality({i \in 1..Len(cs) :
            cs[i] = ch /\ Cardinality({j \in toggles : j <= i}) % 2 = 0})

\* The counts after the inner loop over the characters cs.
CountChars(cs, counts) == <<counts[1] + Counted(cs, "["), counts[2] + Counted(cs, "]")>>

\* Lines 200-208 for one line: square_bracket_counts after its inner loop.
CountLine(line, counts) == CountChars(Chars(line), counts)

(***************************************************************************)
(* Translator.translate, lines 214-226: decoding                           *)
(***************************************************************************)

DecodeError == [ok |-> FALSE]

\* TranslatedPart(part[0], part[1] if len(part) >= 2 else [])
PartOf(part) ==
    LET head == PyIndex(part, 0)
    IN IF ~head.ok THEN [ok |-> FALSE]
       ELSE [ok |-> TRUE,
             text |-> head.val,
             alternatives |-> IF PyIndex(part, 1).ok THEN PyIndex(part, 1).val ELSE Arr(<<>>)]

\* sep.join(texts) for texts that are all strings.
RECURSIVE Join(_, _)
Join(sep, texts) ==
    IF texts = <<>> THEN ""
    ELSE IF Len(texts) = 1 THEN texts[1]
    ELSE texts[1] \o sep \o Join(sep, Tail(texts))

\* A separator that does not look at the flag.
SeparatorAlwaysSpace(should_spacing) == " "

\* Line 224: the separator the flag selects.
Separator(should_spacing) == IF Truthy(should_spacing) THEN " " ELSE ""

\* Lines 218-226: the parts made from the segments, and their texts joined.
DecodeParts(parsed, should_spacing, made) ==
    IF \E i \in 1..Len(made) : ~made[i].ok \/ ~IsStr(made[i].text) THEN DecodeError
    ELSE [ ok |-> TRUE,
           parsed |-> parsed,
           should_spacing |-> should_spacing,
           parts |-> [i \in 1..Len(made) |->
                        [text |-> made[i].text.s, alternatives |-> made[i].alternatives]],
           translated |-> Join(Separator(should_spacing),
                               [i \in 1..Len(made) |-> made[i].text.s]) ]

\* Lines 217-223: flag = parsed[1][0][0][3] and segs = parsed[1][0][0][5] as read,
\* each part made by the lambda of line 220.
DecodeDetail(parsed, flag, segs) ==
    IF ~flag.ok \/ ~segs.ok \/ ~Iterable(segs.val) THEN DecodeError
    ELSE DecodeParts(parsed, flag.val,
                     [i \in 1..Len(Elements(segs.val)) |-> PartOf(Elements(segs.val)[i])])

\* Line 215 done: inner is what json.loads(data[0][2]) gave.
DecodeInner(inner) ==
    IF ~inner.ok THEN DecodeError
    ELSE DecodeDetail(inner.val, PyPath(inner.val, <<1, 0, 0, 3>>),
                      PyPath(inner.val, <<1, 0, 0, 5>>))

\* Line 215: body is data[0][2] as read; json.loads wants a string.
DecodeBody(body) ==
    IF ~body.ok \/ ~IsStr(body.val) THEN DecodeError ELSE DecodeInner(Loads(body.val.s))

\* A decoding that answers a buffer json.loads rejects with an empty translation.
DecodeOuterSwallowing(outer) ==
    IF ~outer.ok
    THEN [ok |-> TRUE, parsed |-> Null, should_spacing |-> Null, parts |-> <<>>,
          translated |-> ""]
    ELSE DecodeBody(PyPath(outer.val, <<0, 2>>))

\* Line 214 done: outer is what json.loads(resp) gave.
DecodeOuter(outer) ==
    IF ~outer.ok THEN DecodeError ELSE DecodeBody(PyPath(outer.val, <<0, 2>>))

\* Lines 214-226: any exception (JSONDecodeError, IndexError, TypeError) ends the
\* call; otherwise parsed, the parts and the joined text.
Decode(resp) == DecodeOuter(Loads(resp))

(***************************************************************************)
(* Translator.translate, lines 228-270: the result                         *)
(***************************************************************************)

\* A try/except read: the value, or the default when the read raises.
TryPath(v, path, default) == IF PyPath(v, path).ok THEN PyPath(v, path).val ELSE default

\* Lines 228-232, src being the value held so far.
FirstSource(src, parsed) == IF src = Str("auto") THEN TryPath(parsed, <<2>>, src) ELSE src

\* Lines 233-237.
SecondSource(src, parsed) == IF src = Str("auto") THEN TryPath(parsed, <<0, 2>>, src) ELSE src

\* Lines 228-237.
ResultSource(src, parsed) == SecondSource(FirstSource(Str(src), parsed), parsed)

\* Lines 239-270: Translated(...).
Translated(src, dest, origin, d) ==
    [ src |-> ResultSource(src, d.parsed),
      dest |-> dest,
      origin |-> origin,
      text |-> d.translated,
      pronunciation |-> TryPath(d.parsed, <<1, 0, 0, 1>>, Null),
      parts |-> d.parts,
      origin_pronunciation |-> TryPath(d.parsed, <<0, 0>>, Null),
      confidence |-> Null ]

\* Lines 272-279: Detected(...).
Detected(translated) == [lang |-> translated.src, confidence |-> translated.confidence]

\* A resolution that checks the destination only after the post, that is, not at all
\* before it.
ResolveLangsSourceOnly(dest, src) ==
    LET s == ResolveSrc(NormalizeLang(src))
        d == ResolveDest(NormalizeLang(dest))
    IN IF ~s.ok THEN [ok |-> FALSE, dest |-> "", src |-> "", error |-> "invalid source language"]
       ELSE [ok |-> TRUE, dest |-> IF d.ok THEN d.code ELSE NormalizeLang(dest),
             src |-> s.code, error |-> ""]

\* Lines 170-187 as a whole: both codes normalised and resolved, the source first.
ResolveLangs(dest, src) ==
    LET s == ResolveSrc(NormalizeLang(src))
        d == ResolveDest(NormalizeLang(dest))
    IN IF ~s.ok THEN [ok |-> FALSE, dest |-> "", src |-> "", error |-> "invalid source language"]
       ELSE IF ~d.ok
       THEN [ok |-> FALSE, dest |-> "", src |-> "", error |-> "invalid destination language"]
       ELSE [ok |-> TRUE, dest |-> d.code, src |-> s.code, error |-> ""]

\* Lines 196-212: one pass of the line loop; stop is the break.
ScanStep(line, token_found, counts, resp) ==
    LET found == token_found \/ TokenInPrefix(line) IN
    IF ~found
    THEN [token_found |-> FALSE, counts |-> counts, resp |-> resp, stop |-> FALSE]
    ELSE LET counted == CountLine(line, counts)
         IN [token_found |-> TRUE, counts |-> counted, resp |-> resp \o line,
             stop |-> counted[1] = counted[2]]

\* Lines 192-212 run to the end on the lines from i on: what the loop leaves.
RECURSIVE ExtractFrom(_, _, _, _, _)
ExtractFrom(lines, i, token_found, counts, resp) ==
    IF i > Len(lines) THEN [token_found |-> token_found, counts |-> counts, resp |-> resp]
    ELSE LET st == ScanStep(lines[i], token_found, counts, resp)
         IN IF st.stop THEN [token_found |-> TRUE, counts |-> st.counts, resp |-> st.resp]
            ELSE ExtractFrom(lines, i + 1, st.token_found, st.counts, st.resp)

\* Lines 192-212 on a body.
Extract(data) == ExtractFrom(SplitLines(data), 1, FALSE, <<0, 0>>, "")

(***************************************************************************)
(* State                                                                   *)
(***************************************************************************)

VARIABLES
    session,      \* the Translator's attributes
    constructed,  \* the attributes as __init__ left them (history)
    calls,        \* per invocation of translate/detect: its position and locals
    requests      \* the posts made through self.client

vars == <<session, constructed, calls, requests>>

\* How many invocations may be in flight on one session.
MaxCalls == 2
CallIds == 1..MaxCalls

NoResponse == [status_code |-> 0, text |-> ""]
NotDecoded == [ok |-> FALSE]
NoResult == [none |-> TRUE]

InvalidLanguageErrors == {"invalid source language", "invalid destination language"}

NewCall(pc) ==
    [ pc |-> pc, kind |-> "", text |-> "", arg_dest |-> "", arg_src |-> "",
      dest |-> "", src |-> "", response |-> NoResponse, data |-> "",
      lines |-> <<>>, line_no |-> 0, token_found |-> FALSE, square_bracket_counts |-> <<0, 0>>,
      resp |-> "", decoded |-> NotDecoded, result |-> NoResult,
      detected |-> NoResult, error |-> "" ]

\* The state after Translator(...) with one of the given argument sets; the
\* invocations in `running` are yet to be made, the others never are.
Constructed(configs, running) ==
    /\ \E cfg \in configs :
          session = NewTranslator(cfg.service_urls, DEFAULT_USER_AGENT,
                                  cfg.raise_exception, cfg.use_fallback)
    /\ constructed = session
    /\ calls = [c \in CallIds |-> NewCall(IF c \in running THEN "idle" ELSE "unused")]
    /\ requests = {}

(***************************************************************************)
(* Operations                                                              *)
(***************************************************************************)

\* translate(text, dest, src) is entered.
CallTranslate(c, args) ==
    /\ calls[c].pc = "idle"
    /\ \E a \in args :
          calls' = [calls EXCEPT ![c] =
                      [@ EXCEPT !.pc = "entered", !.kind = "translate", !.text = a.text,
                                !.arg_dest = a.dest, !.arg_src = a.src,
                                !.dest = a.dest, !.src = a.src]]
    /\ UNCHANGED <<session, constructed, requests>>

\* detect(text), line 273: translate(text, src="auto", dest="en") is entered.
CallDetect(c, texts) ==
    /\ calls[c].pc = "idle"
    /\ \E t \in texts :
          calls' = [calls EXCEPT ![c] =
                      [@ EXCEPT !.pc = "entered", !.kind = "detect", !.text = t,
                                !.arg_dest = "en", !.arg_src = "auto",
                                !.dest = "en", !.src = "auto"]]
    /\ UNCHANGED <<session, constructed, requests>>

\* Lines 170-187, both codes resolved.
ResolveOk(c) ==
    /\ calls[c].pc = "entered"
    /\ LET r == ResolveLangs(calls[c].dest, calls[c].src) IN
          /\ r.ok
          /\ calls' = [calls EXCEPT ![c] = [@ EXCEPT !.pc = "send", !.dest = r.dest, !.src = r.src]]
    /\ UNCHANGED <<session, constructed, requests>>

\* Lines 179 and 187: raise ValueError.
InvalidLanguage(c) ==
    /\ calls[c].pc = "entered"
    /\ LET r == ResolveLangs(calls[c].dest, calls[c].src) IN
          /\ ~r.ok
          /\ calls' = [calls EXCEPT ![c] = [@ EXCEPT !.pc = "failed", !.error = r.error]]
    /\ UNCHANGED <<session, constructed, requests>>

\* The post of _translate, line 133, as it leaves the session and the request log.
Posted(c, pick, f_req) ==
    /\ session' = [session EXCEPT !.service_urls = pick.service_urls]
    /\ requests' = requests \cup
          {[call |-> c, host |-> pick.host, rpcids |-> RPC_ID, f_req |-> f_req]}
    /\ UNCHANGED constructed

\* Lines 189-195: _translate returns r.text; the loop's variables are set up and
\* data.split("\n") is evaluated.
SendOk(c, responses) ==
    /\ calls[c].pc = "send"
    /\ LET f_req == BuildRpcRequest(calls[c].text, calls[c].dest, calls[c].src) IN
       \E pick \in PickServiceUrl(session.service_urls), r \in responses :
          /\ ~RaisesConnectionError(r.status_code, session.raise_exception)
          /\ Posted(c, pick, f_req)
          /\ calls' = [calls EXCEPT ![c] =
                         [@ EXCEPT !.pc = "scan", !.response = r, !.data = r.text,
                                   !.lines = SplitLines(r.text), !.line_no = 1,
                                   !.token_found = FALSE,
                                   !.square_bracket_counts = <<0, 0>>, !.resp = ""]]

\* Lines 135-140: _translate raises ConnectionError.
SendRaises(c, responses) ==
    /\ calls[c].pc = "send"
    /\ LET f_req == BuildRpcRequest(calls[c].text, calls[c].dest, calls[c].src) IN
       \E pick \in PickServiceUrl(session.service_urls), r \in responses :
          /\ RaisesConnectionError(r.status_code, session.raise_exception)
          /\ Posted(c, pick, f_req)
          /\ calls' = [calls EXCEPT ![c] =
                         [@ EXCEPT !.pc = "failed", !.response = r, !.error = "ConnectionError"]]

\* Lines 195-212: one pass of the loop over the lines, which ends on the break or
\* after the last line.
ScanLine(c) ==
    /\ calls[c].pc = "scan"
    /\ LET st == ScanStep(calls[c].lines[calls[c].line_no], calls[c].token_found,
                          calls[c].square_bracket_counts, calls[c].resp)
       IN calls' = [calls EXCEPT ![c] =
                      [@ EXCEPT !.pc = IF st.stop \/ calls[c].line_no = Len(calls[c].lines)
                                       THEN "decode" ELSE "scan",
                                !.line_no = @ + 1,
                                !.token_found = st.token_found,
                                !.square_bracket_counts = st.counts,
                                !.resp = st.resp]]
    /\ UNCHANGED <<session, constructed, requests>>

\* What lines 214-270 return for the decoded body d, and lines 274-279 after them
\* when detect made the call.
Returned(call, d) ==
    [call EXCEPT !.pc = "done", !.decoded = d,
                 !.result = Translated(call.src, call.dest, call.text, d),
                 !.detected = IF call.kind = "detect"
                              THEN Detected(Translated(call.src, call.dest, call.text, d))
                              ELSE NoResult]

\* Lines 214-270 without an exception.
DecodeOk(c) ==
    /\ calls[c].pc = "decode"
    /\ LET d == Decode(calls[c].resp) IN
          /\ d.ok
          /\ calls' = [calls EXCEPT ![c] = Returned(@, d)]
    /\ UNCHANGED <<session, constructed, requests>>

\* Lines 214-226 raising (JSONDecodeError, IndexError, TypeError).
DecodeFail(c) ==
    /\ calls[c].pc = "decode"
    /\ ~Decode(calls[c].resp).ok
    /\ calls' = [calls EXCEPT ![c] = [@ EXCEPT !.pc = "failed", !.error = "decode"]]
    /\ UNCHANGED <<session, constructed, requests>>

(***************************************************************************)
(* What the callers pass and what the transport answers                    *)
(***************************************************************************)

Arg(text, dest, src) == [text |-> text, dest |-> dest, src |-> src]
Config(service_urls, raise_exception, use_fallback) ==
    [service_urls |-> service_urls, raise_exception |-> raise_exception,
     use_fallback |-> use_fallback]
Response(status_code, text) == [status_code |-> status_code, text |-> text]

\* The translation-detail array read at parsed[1][0][0].
Detail(pronunciation, flag, segments) ==
    Arr(<<Null, pronunciation, Null, flag, Null, segments>>)

\* A decoded body: parsed[0], parsed[1] = [[detail]], and what follows them.
ParsedOf(first, detail, rest) == Arr(<<first, Arr(<<Arr(<<detail>>)>>)>> \o rest)

\* The one-line envelope the endpoint wraps a body in: the body JSON-encoded into
\* a string at index 2, further elements after it.
EnvelopeOf(parsed, extras) ==
    Dumps(Arr(<<Arr(<<Str("wrb.fr"), Str(RPC_ID), Str(Dumps(parsed)), Null>>
                    \o extras \o <<Str("generic")>>)>>))

\* How every envelope starts.
EnvelopeHead == "[[\"wrb.fr\",\"MkEWBc\","

HelloParsed ==
    ParsedOf(Null,
             Detail(Null, Bool(TRUE),
                    Arr(<<Arr(<<Str("Hi"), Arr(<<Str("Yo")>>)>>), Arr(<<Str("[\"a]\\")>>)>>)),
             <<Str("es")>>)

\* A body as the endpoint lays it out: guard line, chunk sizes, envelope, trailer.
HelloBody ==
    JoinLines(<<")]}'", "", "450", EnvelopeOf(HelloParsed, <<>>), "25", "[[\"e\",4]]">>)

\* Bodies that carry no payload.
ErrorPage == "<html>\n[503]</html>"

SeqsUpTo(S, n) == UNION {[1..k -> S] : k \in 0..n}

\* ----- the calls and answers of Spec: many language arguments, few bodies

LangConfigs ==
    { Config(DEFAULT_CLIENT_SERVICE_URLS, TRUE, FALSE),
      Config(DEFAULT_CLIENT_SERVICE_URLS, FALSE, FALSE),
      Config(DEFAULT_CLIENT_SERVICE_URLS, FALSE, TRUE),
      Config(<<"translate.google.com", "translate.google.co.kr">>, TRUE, FALSE) }

LangDests == {"en", "EN_us", "_EN", "ko", "iRiSh", "ee", "zzz", "auto", "zh_CN"}
LangSrcs == {"auto", "AUTO_x", "fr", "ENGLISH", "es_", "zzz", "_fr"}
LangArgs == {Arg("Hola", d, s) : d \in LangDests, s \in LangSrcs}
LangTexts == {"Hola"}
LangResponses == {Response(st, b) : st \in {200, 404, 500}, b \in {HelloBody, ErrorPage}}

\* ----- the calls and answers of SpecWire: few arguments, many body layouts

\* How many lines may precede the payload in a generated body.
MaxPrelude == 2

\* Lines that come before the payload. The last two hold the quoted identifier
\* inside a string literal: it ends at column 30 in one, at column 31 in the other.
WirePreludeLines ==
    { ")]}'",
      "[\"di\",\"xxxxxxxxxxxxxx\\\"MkEWBc\"]",
      "[\"di\",\"xxxxxxxxxxxxxxx\\\"MkEWBc\"]" }

\* Elements that follow the body in the envelope: strings with brackets, an
\* escaped quote, a backslash at their end.
WireExtras ==
    { <<>>, <<Str("a]")>>, <<Str("[b")>>, <<Str("q\"[")>>, <<Str("back\\")>>,
      <<Str("back\\"), Str("[")>> }

\* An envelope on one line, and broken after its head.
Layouts(env) ==
    { <<env>>,
      <<Sub(env, 1, Len(EnvelopeHead)), From(env, Len(EnvelopeHead) + 1)>> }

WirePayloads ==
    UNION {Layouts(EnvelopeOf(HelloParsed, x)) : x \in WireExtras}
    \cup { <<>>,
           <<Sub(EnvelopeOf(HelloParsed, <<>>), 1, Len(EnvelopeOf(HelloParsed, <<>>)) - 1)>> }

WireTrailers == {<<>>, <<"25", "[[\"e\",4]]">>}

WireBodies ==
    {JoinLines(p \o w \o t) :
        p \in SeqsUpTo(WirePreludeLines, MaxPrelude), w \in WirePayloads, t \in WireTrailers}

WireConfigs == {Config(DEFAULT_CLIENT_SERVICE_URLS, TRUE, FALSE)}
WireArgs == {Arg("Hola", "en", "auto"), Arg("Hola", "zzz", "auto")}
WireTexts == {"Hola"}
WireResponses == {Response(200, b) : b \in WireBodies} \cup {Response(503, ErrorPage)}

\* ----- the calls and answers of SpecParse: many decoded bodies

\* How many segments a generated body may hold.
MaxParts == 2

ParseFirsts == {Null, Arr(<<Str("hola"), Null, Str("fr")>>), Arr(<<Null>>)}
ParseRests == {<<>>, <<Null>>, <<Str("es")>>, <<Str("auto")>>, <<Num(7)>>}
ParseFlags == {Bool(TRUE), Bool(FALSE), Null, Num(1), Str("")}
ParseSegments ==
    { Arr(<<Str("Hello")>>), Arr(<<Str("wor]ld"), Arr(<<Str("earth")>>)>>),
      Str("x"), Arr(<<Null>>) }
ParseSegmentLists ==
    {Arr(items) : items \in SeqsUpTo(ParseSegments, MaxParts)} \cup {Null, Str("ab")}

\* The flags with the segment lists, and the two positions of the detected
\* language with each other; then bodies that lack the detail array.
ParseBodies ==
    {EnvelopeOf(ParsedOf(Null, Detail(Str("pron"), flag, segs), <<Str("es")>>), <<>>) :
        flag \in ParseFlags, segs \in ParseSegmentLists}
    \cup {EnvelopeOf(ParsedOf(f, Detail(Null, Bool(TRUE), Arr(<<Arr(<<Str("Hi")>>)>>)), r), <<>>) :
            f \in ParseFirsts, r \in ParseRests}
    \cup { EnvelopeOf(Arr(<<Null>>), <<>>),
           EnvelopeOf(Arr(<<Null, Arr(<<Arr(<<Arr(<<Null>>)>>)>>)>>), <<>>),
           Dumps(Arr(<<Arr(<<Str("wrb.fr"), Str(RPC_ID), Null>>)>>)) }

ParseConfigs == {Config(DEFAULT_CLIENT_SERVICE_URLS, TRUE, FALSE)}
ParseArgs == {Arg("Hola", "en", "auto"), Arg("Hola", "en", "fr"), Arg("Hola", "en", "zzz")}
ParseTexts == {"Hola"}
ParseResponses == {Response(200, b) : b \in ParseBodies} \cup {Response(503, ErrorPage)}

\* ----- the calls and answers of SpecConc: several calls in flight

ConcConfigs ==
    { Config(<<"translate.google.com", "translate.google.co.kr">>, TRUE, FALSE),
      Config(DEFAULT_CLIENT_SERVICE_URLS, FALSE, FALSE) }
ConcArgs == {Arg("Bonjour", "ko", "fr"), Arg("Hola", "_EN", "auto")}
ConcTexts == {"Hola"}
ConcResponses ==
    { Response(200, EnvelopeOf(HelloParsed, <<>>)), Response(503, "[503]") }

(***************************************************************************)
(* Specifications                                                          *)
(***************************************************************************)

Init == Constructed(LangConfigs, {1})

Next ==
    \E c \in CallIds :
        \/ CallTranslate(c, LangArgs)
        \/ CallDetect(c, LangTexts)
        \/ ResolveOk(c)
        \/ InvalidLanguage(c)
        \/ SendOk(c, LangResponses)
        \/ SendRaises(c, LangResponses)
        \/ ScanLine(c)
        \/ DecodeOk(c)
        \/ DecodeFail(c)

Spec == Init /\ [][Next]_vars

InitWire == Constructed(WireConfigs, {1})

NextWire ==
    \E c \in CallIds :
        \/ CallTranslate(c, WireArgs)
        \/ CallDetect(c, WireTexts)
        \/ ResolveOk(c)
        \/ InvalidLanguage(c)
        \/ SendOk(c, WireResponses)
        \/ SendRaises(c, WireResponses)
        \/ ScanLine(c)
        \/ DecodeOk(c)
        \/ DecodeFail(c)

SpecWire == InitWire /\ [][NextWire]_vars

InitParse == Constructed(ParseConfigs, {1})

NextParse ==
    \E c \in CallIds :
        \/ CallTranslate(c, ParseArgs)
        \/ CallDetect(c, ParseTexts)
        \/ ResolveOk(c)
        \/ InvalidLanguage(c)
        \/ SendOk(c, ParseResponses)
        \/ SendRaises(c, ParseResponses)
        \/ ScanLine(c)
        \/ DecodeOk(c)
        \/ DecodeFail(c)

SpecParse == InitParse /\ [][NextParse]_vars

InitConc == Constructed(ConcConfigs, CallIds)

NextConc ==
    \E c \in CallIds :
        \/ CallTranslate(c, ConcArgs)
        \/ CallDetect(c, ConcTexts)
        \/ ResolveOk(c)
        \/ InvalidLanguage(c)
        \/ SendOk(c, ConcResponses)
        \/ SendRaises(c, ConcResponses)
        \/ ScanLine(c)
        \/ DecodeOk(c)
        \/ DecodeFail(c)

SpecConc == InitConc /\ [][NextConc]_vars

(***************************************************************************)
(* Properties of the language arguments and of the transport (Spec)        *)
(***************************************************************************)

\* Whether any of the three tables holds the string.
InTables(code) == code \in LANGUAGES \cup DOMAIN SPECIAL_CASES \cup DOMAIN LANGCODES

\* The call has got past lines 170-187, one way or the other.
PastResolution(c) == calls[c].kind # "" /\ calls[c].pc # "entered"

\* The posts a call has made.
RequestsOf(c) == {r \in requests : r.call = c}

\* The call went on to the transport with destination code.
CarriesDest(c, code) ==
    /\ calls[c].error \notin InvalidLanguageErrors
    /\ calls[c].dest = code
    /\ \A r \in RequestsOf(c) :
          r.f_req = BuildRpcRequest(calls[c].text, code, calls[c].src)
    /\ calls[c].pc = "done" => calls[c].result.dest = code

\* C2 as the specification states it: a translate call with destination "_EN" does
\* not fail with the invalid-language error, and its request and its result carry
\* the destination "en".
C2_Original ==
    \A c \in CallIds :
        (PastResolution(c) /\ calls[c].arg_dest = "_EN" /\ calls[c].arg_src \in {"auto", "fr"})
            => CarriesDest(c, "en")

\* C2, amended: the destination is lower-cased and cut at its first underscore, so
\* "_EN" becomes the empty string, which no table holds: the call fails with the
\* invalid-destination error and posts nothing. A destination with a locale suffix,
\* "EN_us", becomes "en": the call does not fail with the invalid-language error
\* and its request and its result carry "en".
C2_Normalised ==
    \A c \in CallIds :
        (PastResolution(c) /\ calls[c].arg_src \in {"auto", "fr"}) =>
            /\ calls[c].arg_dest = "_EN" =>
                  /\ calls[c].pc = "failed"
                  /\ calls[c].error = "invalid destination language"
                  /\ RequestsOf(c) = {}
            /\ calls[c].arg_dest = "EN_us" => CarriesDest(c, "en")

C2_Witness ==
    \E c \in CallIds :
        /\ calls[c].kind = "translate" /\ calls[c].arg_dest = "_EN" /\ calls[c].arg_src = "auto"
        /\ calls[c].pc = "failed" /\ calls[c].error = "invalid destination language"

\* C3: a language string whose normalised form (lower-cased, cut at the first
\* underscore) is in none of the three tables makes resolution fail with the
\* invalid-language error, a destination always and a source unless it is "auto";
\* a call that has posted a request had both its languages in the tables.
C3_AbsentFromTablesFails ==
    \A c \in CallIds :
        PastResolution(c) =>
            LET src == NormalizeLang(calls[c].arg_src)
                dest == NormalizeLang(calls[c].arg_dest)
            IN /\ (src # "auto" /\ ~InTables(src)) =>
                     calls[c].pc = "failed" /\ calls[c].error = "invalid source language"
               /\ ((src = "auto" \/ InTables(src)) /\ ~InTables(dest)) =>
                     calls[c].pc = "failed" /\ calls[c].error = "invalid destination language"
               /\ (calls[c].pc # "failed" \/ RequestsOf(c) # {}) =>
                     (src = "auto" \/ InTables(src)) /\ InTables(dest)

C3_Witness ==
    \E c \in CallIds :
        /\ calls[c].arg_dest = "zzz" /\ calls[c].arg_src = "ENGLISH"
        /\ calls[c].pc = "failed" /\ calls[c].error = "invalid destination language"

\* C4: a call whose source or destination cannot be resolved ends with the
\* invalid-language error in strict and in lenient mode alike, and has made no
\* transport call: it has posted no request and holds no response.
C4_InvalidLanguageBeforeTransport ==
    \A c \in CallIds :
        (PastResolution(c) /\
         (\/ NormalizeLang(calls[c].arg_src) # "auto" /\ ~InTables(NormalizeLang(calls[c].arg_src))
          \/ ~InTables(NormalizeLang(calls[c].arg_dest))))
            => /\ calls[c].pc = "failed"
               /\ calls[c].error \in InvalidLanguageErrors
               /\ RequestsOf(c) = {}
               /\ calls[c].response = NoResponse

C4_Witness ==
    \E c \in CallIds :
        /\ ~session.raise_exception
        /\ calls[c].arg_src = "fr" /\ calls[c].arg_dest = "zzz"
        /\ calls[c].pc = "failed" /\ calls[c].error = "invalid destination language"
        /\ requests = {}

\* C7: a call fails with the transport error exactly when the status it got is not
\* 200 and the session is strict; otherwise, 200 or lenient, it goes on to
\* extraction and parsing with the body that was returned.
C7_TransportErrorIffStrict ==
    \A c \in CallIds :
        /\ calls[c].response = NoResponse => calls[c].error # "ConnectionError"
        /\ calls[c].response # NoResponse =>
              /\ calls[c].error = "ConnectionError" <=>
                    (calls[c].response.status_code # 200 /\ session.raise_exception)
              /\ calls[c].error # "ConnectionError" =>
                    /\ calls[c].data = calls[c].response.text
                    /\ calls[c].pc \in {"scan", "decode", "done", "failed"}
                    /\ calls[c].pc = "failed" => calls[c].error = "decode"

C7_Witness ==
    \E c \in CallIds :
        /\ ~session.raise_exception
        /\ calls[c].response.status_code = 404
        /\ calls[c].pc = "done"

(***************************************************************************)
(* Properties of the decoded body (SpecParse)                              *)
(***************************************************************************)

\* The body a finished call decoded, and the two things line 217 and line 221 read
\* from it.
ParsedOfCall(c) == calls[c].decoded.parsed
FlagOfCall(c) == PyPath(ParsedOfCall(c), <<1, 0, 0, 3>>).val
SegmentsOfCall(c) == Elements(PyPath(ParsedOfCall(c), <<1, 0, 0, 5>>).val)

\* C1: the text a successful call returns is the texts of its parts, in order,
\* joined with one space when parsed[1][0][0][3] is truthy and with nothing
\* otherwise; there is one part per segment of parsed[1][0][0][5], in the
\* segments' order, each holding its segment's first element.
C1_TextIsJoinedParts ==
    \A c \in CallIds :
        calls[c].pc = "done" =>
            LET parts == calls[c].result.parts
                segs == SegmentsOfCall(c)
            IN /\ Len(parts) = Len(segs)
               /\ \A i \in 1..Len(parts) : Str(parts[i].text) = PyIndex(segs[i], 0).val
               /\ calls[c].result.text =
                     Join(IF Truthy(FlagOfCall(c)) THEN " " ELSE "",
                          [i \in 1..Len(parts) |-> parts[i].text])

C1_Witness ==
    \E c \in CallIds :
        /\ calls[c].pc = "done"
        /\ Len(calls[c].result.parts) = 2
        /\ FlagOfCall(c) = Null
        /\ calls[c].result.text = "Hellowor]ld"

\* A value the result may take for a language: a string other than the sentinel.
IsLanguageValue(v) == IsStr(v) /\ v # Str("auto")

\* C8 as the specification states it: with the requested source "auto" the result
\* source is the language at parsed[2]; when that is missing, null or no language,
\* the one at parsed[0][2]; when that is absent too, "auto". With any other
\* requested source the result source is the resolved requested source.
C8_SourceFallback ==
    \A c \in CallIds :
        calls[c].pc = "done" =>
            LET first == PyPath(ParsedOfCall(c), <<2>>)
                second == PyPath(ParsedOfCall(c), <<0, 2>>)
            IN calls[c].result.src =
                  IF calls[c].src # "auto" THEN Str(calls[c].src)
                  ELSE IF first.ok /\ IsLanguageValue(first.val) THEN first.val
                  ELSE IF second.ok /\ IsLanguageValue(second.val) THEN second.val
                  ELSE Str("auto")

(***************************************************************************)
(* Properties of the extractor (SpecWire)                                  *)
(***************************************************************************)

\* The line loop of the call is over.
PastScan(c) ==
    calls[c].pc \in {"decode", "done"} \/ (calls[c].pc = "failed" /\ calls[c].error = "decode")

\* The least member of a non-empty set of positions.
Least(S) == CHOOSE i \in S : \A j \in S : i <= j

\* The first line the loop accumulates: the first one whose first 30 characters
\* hold the quoted identifier; 0 when there is none.
TokenLine(lines) ==
    IF \E i \in 1..Len(lines) : TokenInPrefix(lines[i])
    THEN Least({i \in 1..Len(lines) : TokenInPrefix(lines[i])})
    ELSE 0

\* The backslashes that stand right before position k.
RECURSIVE BackslashesBefore(_, _)
BackslashesBefore(cs, k) ==
    IF k > 1 /\ cs[k - 1] = "\\" THEN 1 + BackslashesBefore(cs, k - 1) ELSE 0

\* The quotes of cs that delimit a string literal as JSON reads them: those not
\* preceded by an odd run of backslashes.
LiteralQuotes(cs) ==
    {i \in 1..Len(cs) : cs[i] = "\"" /\ BackslashesBefore(cs, i) % 2 = 0}

\* How many times ch stands in the text outside every string literal.
OutsideLiterals(s, ch) ==
    LET cs == Chars(s)
        quotes == LiteralQuotes(cs)
    IN Cardinality({i \in 1..Len(cs) :
            cs[i] = ch /\ Cardinality({j \in quotes : j < i}) % 2 = 0})

\* The text has as many opening as closing brackets outside its string literals.
BracketsBalance(s) == OutsideLiterals(s, "[") = OutsideLiterals(s, "]")

\* The brackets of what the loop accumulates never balance at the end of a line:
\* there is no token line, or no line from it on ends a balanced text.
NeverBalances(lines) ==
    \/ TokenLine(lines) = 0
    \/ \A k \in TokenLine(lines)..Len(lines) :
          ~BracketsBalance(Concat(lines, TokenLine(lines), k))

PayloadLine(lines) ==
    IF \E i \in 1..Len(lines) : StartsWith(lines[i], EnvelopeHead)
    THEN Least({i \in 1..Len(lines) : StartsWith(lines[i], EnvelopeHead)})
    ELSE 0

\* The lines before the payload line that hold the quoted identifier, anywhere or
\* ending by the given column.
EarlierOccurrences(lines) ==
    {j \in 1..(PayloadLine(lines) - 1) : Contains(lines[j], QuotedRpcId)}
EarlierOccurrencesBy(lines, column) ==
    {j \in 1..(PayloadLine(lines) - 1) : Contains(Sub(lines[j], 1, column), QuotedRpcId)}

\* C6 as the specification states it: when the quoted identifier occurs in a string
\* on a line before the payload line, the buffer still begins at the payload line.
C6_Original ==
    \A c \in CallIds :
        (PastScan(c) /\ PayloadLine(calls[c].lines) > 0
                     /\ EarlierOccurrences(calls[c].lines) # {})
            => StartsWith(calls[c].resp, calls[c].lines[PayloadLine(calls[c].lines)])

\* C6, amended: when the quoted identifier occurs in a string on lines before the
\* payload line and each occurrence ends beyond the line's 30th character, the
\* buffer begins at the payload line; when an occurrence ends within the first 30
\* characters of an earlier line, the buffer begins at the first such line.
C6_PrefixGuard ==
    \A c \in CallIds :
        (PastScan(c) /\ PayloadLine(calls[c].lines) > 0
                     /\ EarlierOccurrences(calls[c].lines) # {})
            => LET lines == calls[c].lines
                   early == EarlierOccurrencesBy(lines, 30)
               IN StartsWith(calls[c].resp,
                             lines[IF early = {} THEN PayloadLine(lines) ELSE Least(early)])

C6_Witness ==
    \E c \in CallIds :
        /\ calls[c].pc = "done"
        /\ PayloadLine(calls[c].lines) = 2
        /\ EarlierOccurrences(calls[c].lines) = {1}
        /\ EarlierOccurrencesBy(calls[c].lines, 30) = {}
        /\ StartsWith(calls[c].resp, EnvelopeHead)

\* The text is one JSON array.
IsArrayText(s) == Loads(s).ok /\ IsArr(Loads(s).val)

\* The lines at whose end the text accumulated from the token line on is one
\* JSON array.
ArrayEnds(lines) ==
    {k \in TokenLine(lines)..Len(lines) : IsArrayText(Concat(lines, TokenLine(lines), k))}

\* C10 as the specification states it: when the token line begins a JSON array,
\* which may go on over the next lines and hold brackets, escaped quotes and
\* escaped backslashes in its strings, the loop counts the brackets outside the
\* string literals only, stops at the line that ends the array, and the buffer is
\* exactly the text of that array.
C10_BalancedArrayExtracted ==
    \A c \in CallIds :
        (PastScan(c) /\ TokenLine(calls[c].lines) > 0 /\ ArrayEnds(calls[c].lines) # {})
            => LET lines == calls[c].lines
                   array == Concat(lines, TokenLine(lines), Least(ArrayEnds(lines)))
               IN /\ calls[c].resp = array
                  /\ calls[c].square_bracket_counts =
                        <<OutsideLiterals(array, "["), OutsideLiterals(array, "]")>>

(***************************************************************************)
(* Properties of calls in flight together (SpecConc)                       *)
(***************************************************************************)

\* What a call returns or raises.
Outcome(pc, error, result, detected) ==
    [pc |-> pc, error |-> error, result |-> result, detected |-> detected]

\* The call run alone from its entry to its end, with the answer the transport
\* gave it and the mode the session was constructed with.
AloneDecoded(kind, text, langs, d) ==
    IF ~d.ok THEN Outcome("failed", "decode", NoResult, NoResult)
    ELSE Outcome("done", "", Translated(langs.src, langs.dest, text, d),
                 IF kind = "detect" THEN Detected(Translated(langs.src, langs.dest, text, d))
                 ELSE NoResult)

AloneResolved(kind, text, langs, response, raise_exception) ==
    IF ~langs.ok THEN Outcome("failed", langs.error, NoResult, NoResult)
    ELSE IF RaisesConnectionError(response.status_code, raise_exception)
    THEN Outcome("failed", "ConnectionError", NoResult, NoResult)
    ELSE AloneDecoded(kind, text, langs, Decode(Extract(response.text).resp))

Alone(kind, text, dest, src, response, raise_exception) ==
    AloneResolved(kind, text, ResolveLangs(dest, src), response, raise_exception)

\* The calls SpecConc makes and the answers it gives them, each run alone.
ConcEntries ==
    {[kind |-> "translate", text |-> a.text, dest |-> a.dest, src |-> a.src] : a \in ConcArgs}
    \cup {[kind |-> "detect", text |-> t, dest |-> "en", src |-> "auto"] : t \in ConcTexts}

AloneOutcomes ==
    [e \in ConcEntries, r \in ConcResponses \cup {NoResponse}, strict \in BOOLEAN |->
        Alone(e.kind, e.text, e.dest, e.src, r, strict)]

EntryOf(c) ==
    [kind |-> calls[c].kind, text |-> calls[c].text,
     dest |-> calls[c].arg_dest, src |-> calls[c].arg_src]

\* C9: with several calls in flight on one session, under every interleaving, the
\* session's fields (host list, client type, mode, headers) stay as construction
\* left them, and every call that has ended has the outcome it has when run alone
\* with the same arguments and the same response.
C9_CallsDoNotInterfere ==
    /\ session = constructed
    /\ \A c \in CallIds :
          calls[c].pc \in {"done", "failed"} =>
              Outcome(calls[c].pc, calls[c].error, calls[c].result, calls[c].detected)
                  = AloneOutcomes[EntryOf(c), calls[c].response, constructed.raise_exception]

C9_Witness ==
    \E c1, c2 \in CallIds :
        /\ c1 # c2
        /\ calls[c1].kind = "translate" /\ calls[c1].pc = "done"
        /\ calls[c1].result.dest = "ko" /\ calls[c1].result.src = Str("fr")
        /\ calls[c2].kind = "detect" /\ calls[c2].pc = "scan"
        /\ Cardinality({r.host : r \in requests}) = 2

====
